---- MODULE Spec2Model ----
(***************************************************************************)
(* Model of django_q/conf.py: the import-time construction of the Conf     *)
(* class (configuration snapshot), the 'django-q' logger set-up, the       *)
(* optional django_redis import, the module-level redis_client, and the    *)
(* two module functions get_redis_client() and get_ppid().                 *)
(*                                                                         *)
(* Python values are tagged records [tag, val]; external facilities        *)
(* (multiprocessing.cpu_count, psutil, Queue().qsize, os.getppid,          *)
(* django_redis, the host's settings object) are inputs fixed by Init.     *)
(***************************************************************************)
EXTENDS Integers, Sequences, FiniteSets, TLC

VARIABLES
    settings,      \* django.conf.settings: attribute name -> value
    platform,      \* what the interpreter, the OS and optional packages offer
    status,        \* "unloaded" | "loaded" | "failed": outcome of the last import
    imports,       \* number of times the module body has been executed
    Conf,          \* the Conf class attributes (NoConf before the class exists)
    handlers,      \* logging.getLogger('django-q').handlers
    loggerLevel,   \* level of the 'django-q' logger
    django_redis,  \* module global django_redis: "unbound" | "module" | "None"
    redis_client,  \* module global redis_client
    constructed,   \* every client handle handed out by a redis library so far
    lastCall       \* the last operation: [op, result, exc, calls]

vars == <<settings, platform, status, imports, Conf, handlers, loggerLevel,
          django_redis, redis_client, constructed, lastCall>>

(***************************************************************************)
(* Bounds of the model.                                                    *)
(***************************************************************************)
MaxCpu == 2          \* CPU counts reported by a probe range over 1..MaxCpu
MaxWorkers == 2      \* integer 'workers' overrides range over -1..MaxWorkers
MaxImports == 2      \* executions of the module body (import, then reloads)
MaxCalls == 2        \* calls of get_redis_client() after an import
MaxPid == 3          \* process ids range over 1..MaxPid

(***************************************************************************)
(* Program constants.                                                      *)
(***************************************************************************)
DefaultWorkers == 4
DefaultSaveLimit == 250
DefaultRecycle == 500
DefaultCpuAffinity == 0

(***************************************************************************)
(* Python values.                                                          *)
(***************************************************************************)
PyInt(n) == [tag |-> "int", val |-> n]
PyStr(s) == [tag |-> "str", val |-> s]
PyDict(d) == [tag |-> "dict", val |-> d]
PyNone == [tag |-> "none", val |-> 0]
PyFalse == [tag |-> "bool", val |-> 0]
PyTrue == [tag |-> "bool", val |-> 1]

EmptyDict == <<>>

\* Python truth value testing
Truthy(v) ==
    CASE v.tag = "none" -> FALSE
      [] v.tag = "bool" -> v.val # 0
      [] v.tag = "int" -> v.val # 0
      [] v.tag = "str" -> v.val # ""
      [] v.tag = "dict" -> DOMAIN v.val # {}
      [] OTHER -> TRUE

\* a or b
Or(a, b) == IF Truthy(a) THEN a ELSE b

\* dict.get(k, d)
Get(d, k, default) == IF k \in DOMAIN d THEN d[k] ELSE default

Digit(d) == SubSeq("0123456789", d + 1, d + 1)

RECURSIVE NatToStr(_)
NatToStr(n) == IF n < 10 THEN Digit(n) ELSE NatToStr(n \div 10) \o Digit(n % 10)

\* str(v), as str.format applies it to a positional argument
Str(v) ==
    CASE v.tag = "str" -> v.val
      [] v.tag = "none" -> "None"
      [] v.tag = "bool" -> IF v.val # 0 THEN "True" ELSE "False"
      [] v.tag = "int" -> IF v.val < 0 THEN "-" \o NatToStr(-v.val) ELSE NatToStr(v.val)

\* s.startswith(p)
StartsWith(s, p) == Len(s) >= Len(p) /\ SubSeq(s, 1, Len(p)) = p

\* c in s, for a one-character c
Contains(s, c) == \E i \in 1..Len(s) : SubSeq(s, i, i) = c

\* template.format(arg) for a template with one '{}' replacement field
Format(template, arg) ==
    LET fields == {i \in 1..(Len(template) - 1) : SubSeq(template, i, i + 1) = "{}"}
        at == CHOOSE i \in fields : \A j \in fields : i <= j
    IN  IF fields = {} THEN template
        ELSE SubSeq(template, 1, at - 1) \o Str(arg)
                 \o SubSeq(template, at + 2, Len(template))

(***************************************************************************)
(* Exceptions and outcomes of external calls.                              *)
(***************************************************************************)
Exc(type, at) == [type |-> type, at |-> at]
NoExc == Exc("none", "-")

Returns(n) == [kind |-> "ok", n |-> n, exc |-> "none"]
Raises(e) == [kind |-> "raise", n |-> 0, exc |-> e]

(***************************************************************************)
(* The host's settings object.  Q_CLUSTER may be missing; SECRET_KEY is    *)
(* always an attribute (Django's global default is '').  A host that       *)
(* validates its settings (strict) refuses every attribute access while    *)
(* the secret is empty; a host configured by hand does not.                *)
(***************************************************************************)
SettingsGetattr(s, name) ==
    IF s.strict /\ ~Truthy(s.attrs["SECRET_KEY"])
    THEN [val |-> PyNone, exc |-> Exc("ImproperlyConfigured", name)]
    ELSE IF name \in DOMAIN s.attrs
         THEN [val |-> s.attrs[name], exc |-> NoExc]
         ELSE [val |-> PyNone, exc |-> Exc("AttributeError", name)]

\* try: conf = settings.Q_CLUSTER / except AttributeError: conf = {}
QCluster(s) ==
    LET got == SettingsGetattr(s, "Q_CLUSTER")
    IN  IF got.exc.type = "AttributeError"
        THEN [val |-> EmptyDict, exc |-> NoExc]
        ELSE [val |-> got.val.val, exc |-> got.exc]

\* variant: the module itself rejects an empty secret
SecretKey_Checked(s) ==
    LET got == SettingsGetattr(s, "SECRET_KEY")
    IN  IF got.exc = NoExc /\ ~Truthy(got.val)
        THEN [val |-> PyNone, exc |-> Exc("ConfigError", "SECRET_KEY")]
        ELSE got

\* SECRET_KEY = settings.SECRET_KEY
SecretKey(s) == SettingsGetattr(s, "SECRET_KEY")

(***************************************************************************)
(* WORKERS: the override, else cpu_count(), else psutil, else 4.           *)
(***************************************************************************)
WorkersOverride(conf) == Get(conf, "workers", PyFalse)

\* except NotImplementedError (around cpu_count())
CpuCountCaught(exc) == exc = "NotImplementedError"

\* variant: psutil is never asked
PsutilFallback_Skipped(psutil) == [val |-> PyInt(DefaultWorkers), calls |-> <<>>]

\* variant: psutil's answer is taken as it is, without `or 4`
PsutilFallback_NoDefault(psutil) ==
    IF psutil.present
    THEN [val |-> psutil.cpu_count, calls |-> <<"psutil.cpu_count">>]
    ELSE [val |-> PyInt(DefaultWorkers), calls |-> <<>>]

\* if psutil: WORKERS = psutil.cpu_count() or 4 / else: WORKERS = 4
PsutilFallback(psutil) ==
    IF psutil.present
    THEN [val |-> Or(psutil.cpu_count, PyInt(DefaultWorkers)),
          calls |-> <<"psutil.cpu_count">>]
    ELSE [val |-> PyInt(DefaultWorkers), calls |-> <<>>]

Workers(conf, p) ==
    LET w == WorkersOverride(conf)
    IN  IF Truthy(w)
        THEN [val |-> w, exc |-> NoExc, calls |-> <<>>]
        ELSE IF p.cpu_count.kind = "ok"
        THEN [val |-> PyInt(p.cpu_count.n), exc |-> NoExc, calls |-> <<"cpu_count">>]
        ELSE IF CpuCountCaught(p.cpu_count.exc)
        THEN LET f == PsutilFallback(p.psutil)
             IN  [val |-> f.val, exc |-> NoExc, calls |-> <<"cpu_count">> \o f.calls]
        ELSE [val |-> PyNone, exc |-> Exc(p.cpu_count.exc, "cpu_count"),
              calls |-> <<"cpu_count">>]

(***************************************************************************)
(* QSIZE: Queue().qsize() == 0, False when qsize is not implemented.       *)
(***************************************************************************)
\* variant: the qsize probe is not guarded
QsizeCaught_Never(exc) == FALSE

\* except NotImplementedError (around Queue().qsize())
QsizeCaught(exc) == exc = "NotImplementedError"

Qsize(p) ==
    IF p.qsize.kind = "ok"
    THEN [val |-> IF p.qsize.n = 0 THEN PyTrue ELSE PyFalse, exc |-> NoExc]
    ELSE IF QsizeCaught(p.qsize.exc)
    THEN [val |-> PyFalse, exc |-> NoExc]
    ELSE [val |-> PyNone, exc |-> Exc(p.qsize.exc, "Queue.qsize")]

(***************************************************************************)
(* Redis keys.                                                             *)
(***************************************************************************)
Q_LIST(prefix) == Format("django_q:{}:q", prefix)
\* variant: the stats key built from the list key's template
Q_STAT_AsList(prefix) == Format("django_q:{}:q", prefix)
Q_STAT(prefix) == Format("django_q:{}:cluster", prefix)

(***************************************************************************)
(* SIGNAL_NAMES.  Objects are [tag, attrs], attrs listed in dir() order.   *)
(***************************************************************************)
Builtin(name) ==
    [tag |-> "builtin_function_or_method",
     attrs |-> << <<"__call__", PyNone>>, <<"__class__", PyNone>>,
                  <<"__doc__", PyNone>>, <<"__module__", PyStr("signal")>>,
                  <<"__name__", PyStr(name)>>, <<"__self__", PyNone>> >>]

\* the platform's signal module
SignalModule ==
    [tag |-> "module",
     attrs |-> << <<"ITIMER_REAL", PyInt(0)>>, <<"NSIG", PyInt(65)>>,
                  <<"SIGABRT", PyInt(6)>>, <<"SIGALRM", PyInt(14)>>,
                  <<"SIGCHLD", PyInt(17)>>, <<"SIGCLD", PyInt(17)>>,
                  <<"SIGINT", PyInt(2)>>, <<"SIGKILL", PyInt(9)>>,
                  <<"SIGTERM", PyInt(15)>>, <<"SIG_DFL", PyInt(0)>>,
                  <<"SIG_IGN", PyInt(1)>>, <<"alarm", Builtin("alarm")>>,
                  <<"getsignal", Builtin("getsignal")>>,
                  <<"signal", Builtin("signal")>> >>]

\* dir(obj)
Dir(obj) == [i \in 1..Len(obj.attrs) |-> obj.attrs[i][1]]

\* getattr(obj, name), for a name dir(obj) lists
GetAttr(obj, name) ==
    obj.attrs[CHOOSE i \in 1..Len(obj.attrs) : obj.attrs[i][1] = name][2]

\* from signal import signal: the name `signal` of conf.py
signal == GetAttr(SignalModule, "signal")

SignalNameOk(n) == StartsWith(n, "SIG") /\ ~Contains(n, "_")

\* dict(pairs): a later pair replaces an earlier one with the same key
RECURSIVE DictOf(_)
DictOf(pairs) ==
    IF pairs = <<>> THEN EmptyDict
    ELSE LET rest == DictOf(SubSeq(pairs, 1, Len(pairs) - 1))
             last == pairs[Len(pairs)]
         IN  [k \in DOMAIN rest \cup {last[1]} |->
                 IF k = last[1] THEN last[2] ELSE rest[k]]

\* dict((getattr(obj, n), n) for n in dir(obj) if ...)
SignalNamesOf(obj) ==
    LET names == SelectSeq(Dir(obj), SignalNameOk)
    IN  DictOf([i \in 1..Len(names) |-> <<GetAttr(obj, names[i]).val, names[i]>>])

SIGNAL_NAMES == SignalNamesOf(signal)

(***************************************************************************)
(* The body of class Conf.  The first statement that raises ends it, and   *)
(* then the name Conf is not (re)bound.                                    *)
(***************************************************************************)
NoConf == [unbound |-> TRUE]

ConfAttrs(conf, workers, secret, qsize) ==
    LET PREFIX == Get(conf, "name", PyStr("default"))
    IN  [REDIS |-> Get(conf, "redis", PyDict(EmptyDict)),
         DJANGO_REDIS |-> Get(conf, "django_redis", PyNone),
         PREFIX |-> PREFIX,
         LOG_LEVEL |-> Get(conf, "log_level", PyStr("INFO")),
         SAVE_LIMIT |-> Get(conf, "save_limit", PyInt(DefaultSaveLimit)),
         QUEUE_LIMIT |-> Get(conf, "queue_limit", PyNone),
         WORKERS |-> workers,
         COMPRESSED |-> Get(conf, "compress", PyFalse),
         RECYCLE |-> Get(conf, "recycle", PyInt(DefaultRecycle)),
         TIMEOUT |-> Get(conf, "timeout", PyNone),
         LABEL |-> Get(conf, "label", PyStr("Django Q")),
         CPU_AFFINITY |-> Get(conf, "cpu_affinity", PyInt(DefaultCpuAffinity)),
         SYNC |-> Get(conf, "sync", PyFalse),
         CATCH_UP |-> Get(conf, "catch_up", PyTrue),
         SECRET_KEY |-> secret,
         Q_LIST |-> Q_LIST(PREFIX),
         Q_STAT |-> Q_STAT(PREFIX),
         QSIZE |-> qsize,
         SIGNAL_NAMES |-> SIGNAL_NAMES,
         TESTING |-> Get(conf, "testing", PyFalse)]

ConfBody(s, p) ==
    LET qc == QCluster(s)
        w == Workers(qc.val, p)
        sk == SecretKey(s)
        q == Qsize(p)
    IN  IF qc.exc # NoExc
        THEN [exc |-> qc.exc, attrs |-> NoConf, calls |-> <<>>]
        ELSE IF w.exc # NoExc
        THEN [exc |-> w.exc, attrs |-> NoConf, calls |-> w.calls]
        ELSE IF sk.exc # NoExc
        THEN [exc |-> sk.exc, attrs |-> NoConf, calls |-> w.calls]
        ELSE IF q.exc # NoExc
        THEN [exc |-> q.exc, attrs |-> NoConf, calls |-> w.calls \o <<"Queue.qsize">>]
        ELSE [exc |-> NoExc,
              attrs |-> ConfAttrs(qc.val, w.val, sk.val, q.val),
              calls |-> w.calls \o <<"Queue.qsize">>]

(***************************************************************************)
(* Logger set-up.                                                          *)
(***************************************************************************)
LevelNames == {"DEBUG", "INFO", "WARNING", "ERROR", "CRITICAL"}

StreamHandler ==
    [cls |-> "StreamHandler",
     fmt |-> "%(asctime)s [Q] %(levelname)s %(message)s",
     datefmt |-> "%H:%M:%S"]

\* variant: the handler is attached without looking at logger.handlers
LoggerNeedsHandler_Always(hs) == TRUE

\* if not logger.handlers
LoggerNeedsHandler(hs) == hs = <<>>

LoggerSetup(hs, level, attrs) ==
    IF ~LoggerNeedsHandler(hs)
    THEN [exc |-> NoExc, handlers |-> hs, level |-> level]
    ELSE IF attrs.LOG_LEVEL.val \notin LevelNames
    THEN [exc |-> Exc("AttributeError", "logging"), handlers |-> hs, level |-> level]
    ELSE [exc |-> NoExc, handlers |-> Append(hs, StreamHandler),
          level |-> attrs.LOG_LEVEL.val]

(***************************************************************************)
(* django_redis import and get_redis_client().                             *)
(***************************************************************************)
\* if Conf.DJANGO_REDIS: try: import django_redis / except ImportError: django_redis = None
DjangoRedisImport(attrs, p, bound) ==
    IF Truthy(attrs.DJANGO_REDIS)
    THEN IF p.django_redis THEN "module" ELSE "None"
    ELSE bound

\* variant: the module's availability is not tested
UseDjangoRedis_AliasOnly(attrs, bound) == Truthy(attrs.DJANGO_REDIS)

\* if Conf.DJANGO_REDIS and django_redis
UseDjangoRedis(attrs, bound) == Truthy(attrs.DJANGO_REDIS) /\ bound = "module"

NextId == Cardinality(constructed) + 1

\* redis.StrictRedis(**options): a new client object
StrictRedis(options) == [kind |-> "direct", id |-> NextId, options |-> options, alias |-> ""]

\* django_redis.get_redis_connection(alias): the provider's connection for the
\* alias, one it handed out before or a new one
PooledConnections(alias) ==
    {h \in constructed : h.kind = "pooled" /\ h.alias = alias}
        \cup {[kind |-> "pooled", id |-> NextId, options |-> EmptyDict, alias |-> alias]}

NoClient == [kind |-> "none", id |-> 0, options |-> EmptyDict, alias |-> ""]

\* variant: the function hands out the module's client once there is one
get_redis_client_Memo(attrs, bound) ==
    IF redis_client # NoClient
    THEN {[result |-> redis_client, exc |-> NoExc]}
    ELSE {[result |-> StrictRedis(attrs.REDIS.val), exc |-> NoExc]}

\* the possible outcomes [result, exc] of get_redis_client()
get_redis_client(attrs, bound) ==
    IF UseDjangoRedis(attrs, bound)
    THEN IF bound = "module"
         THEN {[result |-> h, exc |-> NoExc] : h \in PooledConnections(attrs.DJANGO_REDIS.val)}
         ELSE {[result |-> NoClient,
                exc |-> Exc(IF bound = "None" THEN "AttributeError" ELSE "NameError",
                            "django_redis")]}
    ELSE {[result |-> StrictRedis(attrs.REDIS.val), exc |-> NoExc]}

(***************************************************************************)
(* get_ppid().                                                             *)
(***************************************************************************)
\* the parent of a process in the OS process table
ParentOf(pid) == pid - 1

\* variant: psutil is asked before os.getppid
get_ppid_PsutilFirst(p) ==
    IF p.psutil.present
    THEN [result |-> ParentOf(p.pid), exc |-> NoExc,
          calls |-> <<"os.getpid", "psutil.Process.ppid">>]
    ELSE IF p.getppid
    THEN [result |-> ParentOf(p.pid), exc |-> NoExc, calls |-> <<"os.getppid">>]
    ELSE [result |-> 0, exc |-> Exc("OSError", "get_ppid"), calls |-> <<>>]

get_ppid(p) ==
    IF p.getppid
    THEN [result |-> ParentOf(p.pid), exc |-> NoExc, calls |-> <<"os.getppid">>]
    ELSE IF p.psutil.present
    THEN [result |-> ParentOf(p.pid), exc |-> NoExc,
          calls |-> <<"os.getpid", "psutil.Process.ppid">>]
    ELSE [result |-> 0, exc |-> Exc("OSError", "get_ppid"), calls |-> <<>>]

(***************************************************************************)
(* Inputs: the Q_CLUSTER mapping, the host's secret and the platform.      *)
(***************************************************************************)
Absent == [tag |-> "absent", val |-> 0]

ConfKeys == {"workers", "name", "save_limit", "django_redis", "log_level", "redis",
             "colour"}

\* the mapping holding the options that are present
DictOfOptions(o) == [k \in {x \in DOMAIN o : o[x] # Absent} |-> o[k]]

NoOptions == [k \in ConfKeys |-> Absent]

ProbeErrors == {"NotImplementedError", "OSError"}

WorkerOverrides == {Absent, PyFalse, PyNone} \cup {PyInt(n) : n \in (-1)..MaxWorkers}
CpuOutcomes == {Returns(n) : n \in 1..MaxCpu} \cup {Raises(e) : e \in ProbeErrors}
NoPsutil == [present |-> FALSE, cpu_count |-> PyNone]
PsutilOutcomes ==
    {NoPsutil} \cup {[present |-> TRUE, cpu_count |-> v] :
                        v \in {PyNone} \cup {PyInt(n) : n \in 0..MaxCpu}}
QsizeOutcomes == {Returns(0)} \cup {Raises(e) : e \in ProbeErrors}
LogLevels == {Absent, PyStr("DEBUG"), PyStr("VERBOSE")}
HostHandler == [cls |-> "NullHandler", fmt |-> "", datefmt |-> ""]

Settings(options, hasQCluster, secret, strict) ==
    [attrs |-> IF hasQCluster
               THEN [Q_CLUSTER |-> PyDict(DictOfOptions(options)), SECRET_KEY |-> PyStr(secret)]
               ELSE [SECRET_KEY |-> PyStr(secret)],
     strict |-> strict]

BasePlatform ==
    [cpu_count |-> Returns(1), psutil |-> NoPsutil, qsize |-> Returns(0),
     django_redis |-> FALSE, getppid |-> TRUE, pid |-> 2]

BaseSettings == Settings(NoOptions, TRUE, "s3cret", TRUE)

\* worker-count and queue-size probes against every 'workers' override
InitWorkers ==
    /\ \E w \in WorkerOverrides :
          settings = Settings([NoOptions EXCEPT !["workers"] = w], TRUE, "s3cret", TRUE)
    /\ \E c \in CpuOutcomes, ps \in PsutilOutcomes, q \in QsizeOutcomes :
          platform = [BasePlatform EXCEPT !.cpu_count = c, !.psutil = ps, !.qsize = q]
    /\ handlers = <<>>

\* the host's secret, with and without a validating host
InitSecret ==
    /\ \E secret \in {"", "s3cret"}, strict \in BOOLEAN, has \in BOOLEAN, l \in LogLevels :
          settings = Settings([NoOptions EXCEPT !["log_level"] = l], has, secret, strict)
    /\ \E q \in QsizeOutcomes : platform = [BasePlatform EXCEPT !.qsize = q]
    /\ handlers = <<>>

\* the redis connection options
InitClient ==
    /\ \E a \in {Absent, PyNone, PyStr(""), PyStr("default")},
          r \in {Absent, PyDict(EmptyDict), PyDict([host |-> "redis.local"])} :
          settings = Settings([NoOptions EXCEPT !["django_redis"] = a, !["redis"] = r],
                              TRUE, "s3cret", TRUE)
    /\ \E m \in BOOLEAN : platform = [BasePlatform EXCEPT !.django_redis = m]
    /\ handlers = <<>>

\* the parent-pid facilities
InitPpid ==
    /\ settings = BaseSettings
    /\ \E g \in BOOLEAN, ps \in PsutilOutcomes, pid \in 2..MaxPid :
          platform = [BasePlatform EXCEPT !.getppid = g, !.psutil = ps, !.pid = pid]
    /\ handlers = <<>>

\* a logger the host has or has not configured already
InitLogger ==
    /\ \E l \in LogLevels :
          settings = Settings([NoOptions EXCEPT !["log_level"] = l], TRUE, "s3cret", TRUE)
    /\ \E q \in QsizeOutcomes : platform = [BasePlatform EXCEPT !.qsize = q]
    /\ handlers \in {<<>>, <<HostHandler>>}

\* cluster names, with options the module reads and one it does not
InitKeys ==
    /\ \E n \in {Absent, PyStr("site2"), PyStr("default"), PyStr("")},
          w \in {Absent, PyInt(2)},
          sl \in {Absent, PyInt(0), PyInt(-1)},
          u \in {Absent, PyStr("red")} :
          settings = Settings([NoOptions EXCEPT !["name"] = n, !["workers"] = w,
                                                !["save_limit"] = sl, !["colour"] = u],
                              TRUE, "s3cret", TRUE)
    /\ platform = BasePlatform
    /\ handlers = <<>>

NoCall == [op |-> "none", result |-> NoClient, exc |-> NoExc, calls |-> <<>>]

Init ==
    /\ \/ InitWorkers
       \/ InitSecret
       \/ InitClient
       \/ InitPpid
       \/ InitLogger
       \/ InitKeys
    /\ status = "unloaded"
    /\ imports = 0
    /\ Conf = NoConf
    /\ loggerLevel = "NOTSET"
    /\ django_redis = "unbound"
    /\ redis_client = NoClient
    /\ constructed = {}
    /\ lastCall = NoCall

(***************************************************************************)
(* Executing the module body: import django_q.conf, or a reload of it.     *)
(***************************************************************************)
ImportFails(e, calls) ==
    /\ status' = "failed"
    /\ lastCall' = [op |-> "import", result |-> NoClient, exc |-> e, calls |-> calls]

ImportModule ==
    /\ imports < MaxImports
    /\ imports' = imports + 1
    /\ UNCHANGED <<settings, platform>>
    /\ LET body == ConfBody(settings, platform)
           lg == LoggerSetup(handlers, loggerLevel, body.attrs)
           bound == DjangoRedisImport(body.attrs, platform, django_redis)
       IN  IF body.exc # NoExc
           THEN /\ ImportFails(body.exc, body.calls)
                /\ UNCHANGED <<Conf, handlers, loggerLevel, django_redis, redis_client,
                               constructed>>
           ELSE IF lg.exc # NoExc
           THEN /\ ImportFails(lg.exc, body.calls)
                /\ Conf' = body.attrs
                /\ UNCHANGED <<handlers, loggerLevel, django_redis, redis_client,
                               constructed>>
           ELSE /\ Conf' = body.attrs
                /\ handlers' = lg.handlers
                /\ loggerLevel' = lg.level
                /\ django_redis' = bound
                /\ \E out \in get_redis_client(body.attrs, bound) :
                      IF out.exc # NoExc
                      THEN /\ ImportFails(out.exc, body.calls)
                           /\ UNCHANGED <<redis_client, constructed>>
                      ELSE /\ status' = "loaded"
                           /\ redis_client' = out.result
                           /\ constructed' = constructed \cup {out.result}
                           /\ lastCall' = [op |-> "import", result |-> out.result,
                                           exc |-> NoExc, calls |-> body.calls]

(***************************************************************************)
(* Callers of the imported module.                                         *)
(***************************************************************************)
\* a call of get_redis_client()
GetRedisClient ==
    /\ status = "loaded"
    /\ Cardinality(constructed) < MaxImports + MaxCalls
    /\ \E out \in get_redis_client(Conf, django_redis) :
          /\ lastCall' = [op |-> "get_redis_client", result |-> out.result,
                          exc |-> out.exc, calls |-> <<>>]
          /\ constructed' = IF out.exc = NoExc THEN constructed \cup {out.result}
                            ELSE constructed
    /\ UNCHANGED <<settings, platform, status, imports, Conf, handlers, loggerLevel,
                   django_redis, redis_client>>

\* a caller's use of the module-level name redis_client
SharedClient == redis_client

ReadRedisClient ==
    /\ status = "loaded"
    /\ lastCall' = [op |-> "redis_client", result |-> SharedClient, exc |-> NoExc,
                    calls |-> <<>>]
    /\ UNCHANGED <<settings, platform, status, imports, Conf, handlers, loggerLevel,
                   django_redis, redis_client, constructed>>

\* a call of get_ppid()
GetPpid ==
    /\ status = "loaded"
    /\ LET r == get_ppid(platform)
       IN  lastCall' = [op |-> "get_ppid",
                        result |-> [NoClient EXCEPT !.kind = "pid", !.id = r.result],
                        exc |-> r.exc, calls |-> r.calls]
    /\ UNCHANGED <<settings, platform, status, imports, Conf, handlers, loggerLevel,
                   django_redis, redis_client, constructed>>

Next ==
    \/ ImportModule
    \/ GetRedisClient
    \/ ReadRedisClient
    \/ GetPpid

Spec == Init /\ [][Next]_vars

(***************************************************************************)
(* Vocabulary of the properties.                                           *)
(***************************************************************************)
Range(f) == {f[i] : i \in DOMAIN f}

\* the override mapping the host supplied ({} when it supplied none)
Options ==
    IF "Q_CLUSTER" \in DOMAIN settings.attrs THEN settings.attrs["Q_CLUSTER"].val
    ELSE EmptyDict

HostSecret == settings.attrs["SECRET_KEY"].val

Resolved == Conf # NoConf

ImportDone == lastCall.op = "import"

TruthyWorkersOverride == "workers" \in DOMAIN Options /\ Truthy(Options["workers"])

CpuProbeOk == platform.cpu_count.kind = "ok"

LibraryCpuOk == platform.psutil.present /\ Truthy(platform.psutil.cpu_count)

\* the tier after the OS primitive: the library's count, else 4
NextTier == IF LibraryCpuOk THEN platform.psutil.cpu_count ELSE PyInt(DefaultWorkers)

AtLeastOne(v) == v.tag = "int" /\ v.val >= 1

(***************************************************************************)
(* C1: worker-count fallback chain.  In every snapshot WORKERS is the      *)
(* `workers` override when that is truthy; else the count cpu_count()      *)
(* returned when it succeeded; else psutil's count when psutil is present  *)
(* and its count is non-zero; else 4.  When cpu_count() succeeded, psutil  *)
(* was not consulted by the import.                                        *)
(***************************************************************************)
WorkerCountChain ==
    /\ Resolved =>
          Conf.WORKERS =
             IF TruthyWorkersOverride THEN Options["workers"]
             ELSE IF CpuProbeOk THEN PyInt(platform.cpu_count.n)
             ELSE IF LibraryCpuOk THEN platform.psutil.cpu_count
             ELSE PyInt(DefaultWorkers)
    /\ (ImportDone /\ (CpuProbeOk \/ TruthyWorkersOverride)) =>
          "psutil.cpu_count" \notin Range(lastCall.calls)

\* the library's count is used: no override, cpu_count() unsupported
WorkerCountChainWitness ==
    /\ Resolved /\ ImportDone
    /\ ~TruthyWorkersOverride
    /\ platform.cpu_count = Raises("NotImplementedError")
    /\ platform.psutil = [present |-> TRUE, cpu_count |-> PyInt(2)]
    /\ Conf.WORKERS = PyInt(2)
    /\ "psutil.cpu_count" \in Range(lastCall.calls)

(***************************************************************************)
(* C3 as stated: in every snapshot WORKERS is an integer >= 1, whatever    *)
(* the override and the probe outcomes.                                    *)
(***************************************************************************)
WorkerCountPositive == Resolved => AtLeastOne(Conf.WORKERS)

(***************************************************************************)
(* C3 as amended: WORKERS >= 1 in every snapshot whose `workers` override  *)
(* is absent, falsy or an integer >= 1, for every probe outcome; a truthy  *)
(* override below 1 is the snapshot's WORKERS unchanged.                   *)
(***************************************************************************)
WorkerCountPositiveUnlessOverridden ==
    Resolved =>
       IF TruthyWorkersOverride /\ ~AtLeastOne(Options["workers"])
       THEN Conf.WORKERS = Options["workers"]
       ELSE AtLeastOne(Conf.WORKERS)

\* both probes come back empty-handed and the default applies
WorkerCountPositiveWitness ==
    /\ Resolved
    /\ "workers" \in DOMAIN Options /\ Options["workers"] = PyInt(0)
    /\ platform.cpu_count = Raises("NotImplementedError")
    /\ platform.psutil = [present |-> TRUE, cpu_count |-> PyInt(0)]
    /\ Conf.WORKERS = PyInt(DefaultWorkers)

(***************************************************************************)
(* C4 as stated: an import never ends with a failure raised by the         *)
(* cpu_count() probe or by the Queue().qsize() probe, whatever its kind.   *)
(***************************************************************************)
NoProbeFailureSurfaces ==
    (ImportDone /\ status = "failed") => lastCall.exc.at \notin {"cpu_count", "Queue.qsize"}

(***************************************************************************)
(* C4 as amended: a NotImplementedError of either probe is never surfaced  *)
(* (WORKERS then comes from the next tier, QSIZE is False); a failure of   *)
(* any other kind raised by a probe the import reaches ends the import     *)
(* with that failure.                                                      *)
(***************************************************************************)
OnlyNotImplementedIsRecovered ==
    /\ ImportDone => lastCall.exc.type # "NotImplementedError"
    /\ Resolved =>
          /\ (~TruthyWorkersOverride /\ ~CpuProbeOk) =>
                /\ platform.cpu_count.exc = "NotImplementedError"
                /\ Conf.WORKERS = NextTier
          /\ platform.qsize.kind = "raise" =>
                /\ platform.qsize.exc = "NotImplementedError"
                /\ Conf.QSIZE = PyFalse
    /\ \A probe \in {"cpu_count", "Queue.qsize"} :
          LET outcome == IF probe = "cpu_count" THEN platform.cpu_count ELSE platform.qsize
          IN  (/\ ImportDone
               /\ lastCall.calls # <<>>
               /\ lastCall.calls[Len(lastCall.calls)] = probe
               /\ outcome.kind = "raise"
               /\ outcome.exc # "NotImplementedError") =>
                 /\ status = "failed"
                 /\ lastCall.exc = Exc(outcome.exc, probe)

\* both probes are unsupported and the import still succeeds
OnlyNotImplementedWitness ==
    /\ status = "loaded" /\ ImportDone
    /\ ~TruthyWorkersOverride
    /\ platform.cpu_count = Raises("NotImplementedError")
    /\ platform.qsize = Raises("NotImplementedError")
    /\ Conf.WORKERS = NextTier
    /\ Conf.QSIZE = PyFalse

\* the causes, other than the secret, that end an import of this model early
OtherFailureCause ==
    \/ ~TruthyWorkersOverride /\ platform.cpu_count = Raises("OSError")
    \/ platform.qsize = Raises("OSError")
    \/ "log_level" \in DOMAIN Options /\ Options["log_level"].val \notin LevelNames
          /\ handlers = <<>>

AliasSet == "django_redis" \in DOMAIN Options /\ Truthy(Options["django_redis"])

RightClient(h) ==
    IF AliasSet /\ platform.django_redis
    THEN h.kind = "pooled" /\ h.alias = Options["django_redis"].val
    ELSE /\ h.kind = "direct"
         /\ h.options = IF "redis" \in DOMAIN Options THEN Options["redis"].val
                        ELSE EmptyDict

ClientPathSelection ==
    /\ lastCall.op = "get_redis_client" =>
          lastCall.exc = NoExc /\ RightClient(lastCall.result)
    /\ ImportDone => lastCall.exc.at # "django_redis"
    /\ status = "loaded" => RightClient(redis_client)

\* the alias is set, django_redis is not installed, the caller gets a direct client
ClientPathSelectionWitness ==
    /\ lastCall.op = "get_redis_client"
    /\ AliasSet /\ ~platform.django_redis
    /\ lastCall.exc = NoExc
    /\ lastCall.result.kind = "direct"

(***************************************************************************)
(* C6 as stated: one client per process.  After one import, every caller   *)
(* that obtains the client, through get_redis_client() or through          *)
(* redis_client, gets the same handle, and no second client exists.        *)
(***************************************************************************)
SingleSharedClient ==
    imports <= 1 =>
       /\ Cardinality(constructed) <= 1
       /\ lastCall.op \in {"get_redis_client", "redis_client"} =>
             lastCall.result = redis_client

(***************************************************************************)
(* C6 as amended: redis_client is set only by an execution of the module   *)
(* body, and every use of redis_client yields that handle;                 *)
(* get_redis_client() is a factory: without django_redis each call builds  *)
(* a new redis.StrictRedis, distinct from redis_client and from every      *)
(* client built before.                                                    *)
(***************************************************************************)
SharedClientFreshFactoryState ==
    /\ status = "loaded" => redis_client \in constructed
    /\ lastCall.op = "redis_client" => lastCall.result = redis_client
    /\ (lastCall.op = "get_redis_client" /\ lastCall.result.kind = "direct") =>
          /\ lastCall.result # redis_client
          /\ lastCall.result.id = Cardinality(constructed)

SharedClientFreshFactory ==
    /\ []SharedClientFreshFactoryState
    /\ [][redis_client' # redis_client => imports' = imports + 1]_vars

\* one import, then a call that built a second direct client
SharedClientFreshFactoryWitness ==
    /\ imports = 1
    /\ lastCall.op = "get_redis_client"
    /\ lastCall.result.kind = "direct"
    /\ redis_client.kind = "direct"
    /\ Cardinality(constructed) = 2

(***************************************************************************)
(* C7: get_ppid() returns os.getppid()'s result, without consulting        *)
(* psutil, when os has getppid; otherwise the parent id of the current     *)
(* process obtained through psutil when psutil is present; it raises       *)
(* OSError exactly when both are missing.  An import never consults a      *)
(* parent-pid facility and never ends with that error.                     *)
(***************************************************************************)
PpidCalls == {"os.getppid", "os.getpid", "psutil.Process.ppid"}

ParentPidPreference ==
    /\ lastCall.op = "get_ppid" =>
          IF platform.getppid
          THEN /\ lastCall.exc = NoExc
               /\ lastCall.result.id = platform.pid - 1
               /\ lastCall.calls = <<"os.getppid">>
          ELSE IF platform.psutil.present
          THEN /\ lastCall.exc = NoExc
               /\ lastCall.result.id = platform.pid - 1
               /\ lastCall.calls = <<"os.getpid", "psutil.Process.ppid">>
          ELSE lastCall.exc.type = "OSError" /\ lastCall.calls = <<>>
    /\ ImportDone =>
          /\ Range(lastCall.calls) \cap PpidCalls = {}
          /\ lastCall.exc.at # "get_ppid"

\* no os.getppid, psutil installed: the parent id comes from psutil
ParentPidPreferenceWitness ==
    /\ lastCall.op = "get_ppid"
    /\ ~platform.getppid /\ platform.psutil.present
    /\ lastCall.exc = NoExc
    /\ lastCall.result.id = platform.pid - 1
    /\ "psutil.Process.ppid" \in Range(lastCall.calls)

(***************************************************************************)
(* C8: logger set-up is idempotent.  When the 'django-q' logger started    *)
(* without handlers, it has exactly one handler, the module's stream       *)
(* handler, after any number of successful imports; and no step adds a     *)
(* handler to a logger that has one.                                       *)
(***************************************************************************)
OneHandlerState ==
    HostHandler \notin Range(handlers) =>
       /\ Len(handlers) <= 1
       /\ status = "loaded" => handlers = <<StreamHandler>>

OneHandler ==
    /\ []OneHandlerState
    /\ [][handlers # <<>> => handlers' = handlers]_vars

\* the module body ran twice and the logger has the one stream handler
OneHandlerWitness ==
    /\ imports = 2
    /\ status = "loaded"
    /\ handlers = <<StreamHandler>>

(***************************************************************************)
(* C9: in every snapshot SIGNAL_NAMES maps the code of the platform's      *)
(* SIGINT to "SIGINT", and its keys are exactly the codes of the signal    *)
(* module's names that start with "SIG" and hold no underscore.            *)
(***************************************************************************)
PlatformSignalNames == {n \in Range(Dir(SignalModule)) : SignalNameOk(n)}

SignalTableHasInterrupt ==
    Resolved =>
       LET sigint == GetAttr(SignalModule, "SIGINT").val
       IN  /\ sigint \in DOMAIN Conf.SIGNAL_NAMES
           /\ Conf.SIGNAL_NAMES[sigint] = "SIGINT"
           /\ DOMAIN Conf.SIGNAL_NAMES
                 = {GetAttr(SignalModule, n).val : n \in PlatformSignalNames}
           /\ \A c \in DOMAIN Conf.SIGNAL_NAMES : ~Contains(Conf.SIGNAL_NAMES[c], "_")

(***************************************************************************)
(* C10: in every snapshot Q_LIST is "django_q:<name>:q" and Q_STAT is      *)
(* "django_q:<name>:cluster", <name> being the `name` option, or           *)
(* "default" without one; the options {name: "site2", workers: 2,          *)
(* save_limit: 0} give PREFIX "site2", WORKERS 2, SAVE_LIMIT 0 and Q_LIST  *)
(* "django_q:site2:q"; an option the module does not know changes nothing. *)
(***************************************************************************)
KnownOptions == [k \in DOMAIN Options \ {"colour"} |-> Options[k]]

SettingsWithoutUnknown ==
    [settings EXCEPT !.attrs = [a \in DOMAIN settings.attrs |->
        IF a = "Q_CLUSTER" THEN PyDict(KnownOptions) ELSE settings.attrs[a]]]

Site2Options ==
    /\ "name" \in DOMAIN Options /\ Options["name"] = PyStr("site2")
    /\ "workers" \in DOMAIN Options /\ Options["workers"] = PyInt(2)
    /\ "save_limit" \in DOMAIN Options /\ Options["save_limit"] = PyInt(0)

NamespacedKeys ==
    Resolved =>
       LET name == IF "name" \in DOMAIN Options THEN Options["name"].val ELSE "default"
       IN  /\ Conf.PREFIX = PyStr(name)
           /\ Conf.Q_LIST = "django_q:" \o name \o ":q"
           /\ Conf.Q_STAT = "django_q:" \o name \o ":cluster"
           /\ Site2Options =>
                 /\ Conf.WORKERS = PyInt(2)
                 /\ Conf.SAVE_LIMIT = PyInt(0)
                 /\ Conf.Q_LIST = "django_q:site2:q"
           /\ Conf = ConfBody(SettingsWithoutUnknown, platform).attrs

\* the site2 options, with an unknown option beside them
NamespacedKeysWitness ==
    /\ status = "loaded"
    /\ Site2Options
    /\ "colour" \in DOMAIN Options
    /\ Conf.PREFIX = PyStr("site2")
    /\ Conf.Q_LIST = "django_q:site2:q"
    /\ Conf.Q_STAT = "django_q:site2:cluster"
    /\ Conf.SAVE_LIMIT = PyInt(0)

====
